---- MODULE Spec2Model ----
(***************************************************************************)
(* A model of the store engine: BaseStore / MemoryStore / RequestStore     *)
(* (the store source file) and the Sort query (src/query/Sort.ts), as the  *)
(* source is written.                                                      *)
(*                                                                         *)
(* Which stores exist.  RequestStore is the one class whose constructor    *)
(* returns (lines 533-538).  MemoryStore's constructor (lines 380-387)     *)
(* calls buildMap, which calls this.getIds, a method no class defines: it  *)
(* throws a TypeError on every input, the caller gets the exception and no *)
(* object.  So no MemoryStore exists, and the methods of MemoryStore       *)
(* (lines 389-525) and BaseStore.fetch (lines 260-277; RequestStore        *)
(* overrides fetch) are run by no call: they are not part of the state     *)
(* machine.  new MemoryStore is an action that throws.                     *)
(*                                                                         *)
(* Both constructors call super() without the options, so BaseStore's      *)
(* constructor sees no source and no queries: every store has source       *)
(* undefined, queries [] and version 1 when it is made, the stores that    *)
(* filter, sort and range return included.  The branches of the methods    *)
(* for a store that has a source are modelled all the same.  The options   *)
(* the constructor was called with are kept in the field options of the    *)
(* store, which the code does not have: it tells of a store which store    *)
(* and which query it was derived from.                                    *)
(*                                                                         *)
(* The code as it runs:                                                    *)
(*   - setupUpdateAspects (lines 323-331) wraps _put, _add and _delete in  *)
(*     the advice unwrapUpdates, which evaluates this.handleUpdates.bind;  *)
(*     RequestStore defines _handleUpdate (line 632) and no handleUpdates, *)
(*     so the advice throws a TypeError whenever the primitive returned;   *)
(*   - UpdateType (line 16) is a type alias and no value: _delete (line    *)
(*     628) throws a ReferenceError when it evaluates UpdateType.Deleted;  *)
(*   - the thunks of put (lines 199-222) are arrow functions made inside a *)
(*     plain function that map calls without a receiver: this is undefined *)
(*     in them, and this.isUpdate is a TypeError;                          *)
(*   - RequestStore.fetch (lines 544-555) reduces the queries to the       *)
(*     conjunction of the Filters among them, starting from null, and      *)
(*     calls toString() on the result: with no Filter that is a TypeError. *)
(* What the failing call did before it failed is kept: the version         *)
(* increments, this.isLive = true, this.inTransaction = true.              *)
(*                                                                         *)
(* Taken from outside the source file:                                     *)
(*   - the generic argument list left open in line 198 is read as closed;  *)
(*   - after (dojo-core/aspect) returns a function that calls the          *)
(*     primitive and then the advice with the primitive's result;          *)
(*   - request (dojo-core/request) returns a promise that settles when the *)
(*     server answers.  The server is not modelled: a call whose promise   *)
(*     waits for it ends "pending".  No callback attached to such a        *)
(*     promise writes a field of a store without a source;                 *)
(*   - Filter, Range and Transaction are not among the sources and follow  *)
(*     the specification.                                                  *)
(*                                                                         *)
(* Every store field the properties below read is written before the       *)
(* advice of after or batchUpdates is reached (lines 190, 196, 235, 250),  *)
(* so no property turns on how these two are read.                         *)
(*                                                                         *)
(* Granularity.  A call is one step, and the step records how the call     *)
(* ended: it returned a value ("returned"), threw ("thrown"), or returned  *)
(* a promise, which is then resolved ("resolved") or rejected ("rejected") *)
(* without any further code of the store running, or waits for the server  *)
(* ("pending").                                                            *)
(***************************************************************************)
EXTENDS Integers, Sequences, FiniteSets, TLC

VARIABLES stores, last

vars == <<stores, last>>

(***************************************************************************)
(* Bounds.                                                                 *)
(***************************************************************************)
MaxVal == 2          \* item values are 1..MaxVal
MaxCallArgs == 1     \* arguments of one add / delete / get call
MaxPutArgs == 2      \* arguments of one put call
MaxEvents == 2       \* events of one Batch handed to the update callback
MaxWork == 3         \* total of the version increments before a call
MaxStores == 2       \* stores constructed
MaxChain == 3        \* stores constructed in the runs of the views alone
MaxSortLen == 3      \* length of the arrays handed to Sort.apply

(***************************************************************************)
(* Values.                                                                 *)
(***************************************************************************)
Ids == {"a", "b", "c"}
Undefined == "undefined"
Null == 0
Vals == 1 .. MaxVal
Items == [id : Ids, v : Vals]
NoStore == 0

Min(x, y) == IF x < y THEN x ELSE y

\* The argument lists of a call with a rest parameter: 0..n values of S.
ArgLists(S, n) == UNION {[1 .. k -> S] : k \in 0 .. n}

(***************************************************************************)
(* Query algebra.  Sort is src/query/Sort.ts; Filter and Range are not     *)
(* among the sources and follow the specification's section 4.1.           *)
(***************************************************************************)
FilterQuery(least) ==
    [queryType |-> "Filter", min |-> least, descending |-> FALSE, start |-> 0, count |-> 0]
SortQuery(descending) ==
    [queryType |-> "Sort", min |-> 0, descending |-> descending, start |-> 0, count |-> 0]
RangeQuery(start, count) ==
    [queryType |-> "Range", min |-> 0, descending |-> FALSE, start |-> start, count |-> count]

Queries == {FilterQuery(MaxVal), SortQuery(FALSE), RangeQuery(1, 1)}

\* isFilter(query)
isFilter(query) == query.queryType = "Filter"

\* navigate(pointer, item) for the property path "v".
navigate(item) == item.v

\* The value navigate finds at a path the item does not have: undefined.
Missing == -1

\* x == null: true of null and of undefined.
EqualsNull(x) == x \in {Null, Missing}

\* sortValue, had it put the null values behind the defined ones.
sortValueNullsLast(a, b) ==
    IF EqualsNull(a) /\ EqualsNull(b) THEN 0
    ELSE IF EqualsNull(a) /\ ~EqualsNull(b) THEN 1
    ELSE IF EqualsNull(b) /\ ~EqualsNull(a) THEN -1
    ELSE IF a < b THEN -1
    ELSE IF a > b THEN 1
    ELSE 0

sortValue(a, b) ==
    IF EqualsNull(a) /\ EqualsNull(b) THEN 0
    ELSE IF EqualsNull(a) /\ ~EqualsNull(b) THEN -1
    ELSE IF EqualsNull(b) /\ ~EqualsNull(a) THEN 1
    ELSE IF a < b THEN -1
    ELSE IF a > b THEN 1
    ELSE 0

flip(c) == -1 * c

comparator(query, a, b) ==
    IF query.descending
    THEN flip(sortValue(navigate(a), navigate(b)))
    ELSE sortValue(navigate(a), navigate(b))

\* Array.prototype.sort with the query's comparator, as a stable insertion
\* sort: x goes after every element that does not compare greater than it.
RECURSIVE InsertSorted(_, _, _)
InsertSorted(query, sorted, x) ==
    IF sorted = <<>> THEN <<x>>
    ELSE IF comparator(query, Head(sorted), x) > 0 THEN <<x>> \o sorted
    ELSE <<Head(sorted)>> \o InsertSorted(query, Tail(sorted), x)

RECURSIVE SortBy(_, _)
SortBy(query, data) ==
    IF data = <<>> THEN <<>>
    ELSE InsertSorted(query, SortBy(query, SubSeq(data, 1, Len(data) - 1)), data[Len(data)])

FilterApply(query, data) == SelectSeq(data, LAMBDA item : item.v >= query.min)

RangeApply(query, data) ==
    SubSeq(data, query.start + 1, Min(query.start + query.count, Len(data)))

\* query.apply(data): the sequence it returns.
Apply(query, data) ==
    IF query.queryType = "Filter" THEN FilterApply(query, data)
    ELSE IF query.queryType = "Sort" THEN SortBy(query, data)
    ELSE RangeApply(query, data)

\* queries.reduce((prev, next) => next.apply(prev), data)
RECURSIVE ApplyAll(_, _)
ApplyAll(queries, data) ==
    IF queries = <<>> THEN data
    ELSE ApplyAll(Tail(queries), Apply(Head(queries), data))

\* Sort.apply(data) is data.sort(comparator): the array it is given is sorted
\* where it stands and is the array returned.
SortApply(query, data) ==
    LET sorted == SortBy(query, data) IN [returned |-> sorted, given |-> sorted]



(***************************************************************************)
(* Results of a call: the store or stores afterwards, how the call ended,  *)
(* the error and the value.                                                *)
(***************************************************************************)
NoError == "none"
TypeError == "TypeError"
ReferenceError == "ReferenceError"

Res(st, outcome, error, value) ==
    [st |-> st, outcome |-> outcome, error |-> error, value |-> value]

Out(S, outcome, error, value) ==
    [stores |-> S, outcome |-> outcome, error |-> error, value |-> value]

\* The result r of a primitive of store s, as the result of a method.
OutOf(S, s, r) == Out([S EXCEPT ![s] = r.st], r.outcome, r.error, r.value)

\* The item of an event that carries none.
NoItem == [id |-> Undefined, v |-> Null]

Event(type, item, id) ==
    [id |-> id, item |-> item, type |-> type, updates |-> <<>>]
Batch(updates) ==
    [id |-> Undefined, item |-> NoItem, type |-> "batch", updates |-> updates]

(***************************************************************************)
(* Construction.  A store is the record of the fields of BaseStore and     *)
(* RequestStore.  isLive, data and map are assigned by no constructor:     *)
(* isLive is FALSE for undefined.                                          *)
(***************************************************************************)
\* options || {} of a constructor called without options.
NoOptions ==
    [queries |-> <<>>, source |-> NoStore, target |-> Undefined, sendPatches |-> FALSE]

\* BaseStore.constructor(options); sourceVersion is options.source.version.
BaseStore(options, sourceVersion) ==
    [data |-> Undefined,
     queries |-> options.queries,
     source |-> options.source,
     subscribers |-> <<>>,
     version |-> IF options.source # NoStore THEN sourceVersion ELSE 1,
     inTransaction |-> FALSE,
     isLive |-> FALSE,
     map |-> Undefined]

\* RequestStore.constructor(options): super() is called without the options.
RequestStore(options) ==
    LET base == BaseStore(NoOptions, 0)
    IN [data |-> base.data,
        queries |-> base.queries,
        source |-> base.source,
        target |-> options.target,
        sendPatches |-> options.sendPatches,
        options |-> options,
        subscribers |-> base.subscribers,
        version |-> base.version,
        inTransaction |-> base.inTransaction,
        isLive |-> base.isLive,
        map |-> base.map]

\* buildMap(collection, map?): this.getIds(...collection) is evaluated first,
\* and getIds is not a function: a TypeError is thrown before any entry is
\* written, whatever the collection and whether a map was given or not.
buildMap(collection, map) ==
    [outcome |-> "thrown", error |-> TypeError, map |-> map]

\* MemoryStore.constructor(options): super() is called without the options, so
\* the store has no source, the map is set and buildMap is called, which throws.
MemoryStore(options) ==
    LET base == BaseStore(NoOptions, 0)
    IN IF base.source = NoStore
       THEN LET built == buildMap(options.data, options.map)
            IN [threw |-> built.outcome = "thrown", error |-> built.error]
       ELSE [threw |-> FALSE, error |-> NoError]

\* getOptions(): an object with source and queries, and no other property.
getOptions(S, s) ==
    [queries |-> S[s].queries,
     source |-> IF S[s].source # NoStore THEN S[s].source ELSE s,
     target |-> Undefined,
     sendPatches |-> FALSE]

\* createSubcollection(options): new this.StoreClass(options), appended to the
\* stores; the value is the new store.
createSubcollection(S, options) ==
    Out(Append(S, RequestStore(options)), "returned", NoError, <<Len(S) + 1>>)

\* query(query)
BaseStore_query(S, s, q) ==
    createSubcollection(S, [getOptions(S, s) EXCEPT !.queries = Append(@, q)])

\* filter(filter), sort(sort) and range(range), called with a query object.
filter(S, s, q) == BaseStore_query(S, s, q)
sort(S, s, q) == BaseStore_query(S, s, q)
range(S, s, q) == BaseStore_query(S, s, q)

(***************************************************************************)
(* The primitives of RequestStore, and the advice around them.             *)
(***************************************************************************)
\* _get(id): Promise.resolve(null).
_get(st, ids) == Res(st, "resolved", NoError, Null)

\* _add(item, index): the promise of request.post.
_add(st, args) == Res(st, "pending", NoError, <<>>)

\* _put(itemOrId, patch): the promise of the id with the callback that will
\* send the request; the callback writes no field of the store.
_put(st, args) == Res(st, "pending", NoError, <<>>)

\* _delete(id, index): evaluating UpdateType.Deleted throws.
_delete(st, args) == Res(st, "thrown", ReferenceError, <<>>)

\* getId(item): Promise.resolve(item.id).
getId(st, item) == Res(st, "resolved", NoError, <<item.id>>)

\* unwrapUpdates(updatePromises): this.handleUpdates is undefined, and
\* undefined.bind throws.
unwrapUpdates(st, updatePromises) == Res(st, "thrown", TypeError, <<>>)

\* after(primitive, unwrapUpdates), called: r is what the primitive did.  An
\* exception of the primitive leaves the call; else the advice runs.
Advised(r) == IF r.outcome = "thrown" THEN r ELSE unwrapUpdates(r.st, r)

(***************************************************************************)
(* The public methods.  S is the sequence of the stores, s the receiver.   *)
(***************************************************************************)
\* this.version++, had it counted down.
LowerVersion(S, s) == [S EXCEPT ![s].version = @ - 1]

BumpVersion(S, s) == [S EXCEPT ![s].version = @ + 1]

RECURSIVE get(_, _, _)
get(S, s, ids) ==
    IF S[s].source # NoStore THEN get(S, S[s].source, ids)
    ELSE OutOf(S, s, _get(S[s], ids))

\* add(...items): with a source, the array of the items is the one argument
\* of the source's add.
RECURSIVE add(_, _, _)
add(S, s, items) ==
    IF S[s].source # NoStore THEN add(S, S[s].source, <<items>>)
    ELSE LET S1 == BumpVersion(S, s)
         IN OutOf(S1, s, Advised(_add(S1[s], items)))

RECURSIVE delete(_, _, _)
delete(S, s, ids) ==
    IF S[s].source # NoStore THEN delete(S, S[s].source, ids)
    ELSE LET S1 == BumpVersion(S, s)
         IN OutOf(S1, s, Advised(_delete(S1[s], ids)))

\* transaction(): the Transaction handle is not modelled.
transaction(S, s) == [S EXCEPT ![s].inTransaction = TRUE]

\* One thunk of put, called: areItems holds, and this.isUpdate is read where
\* this is undefined.
Thunk(S, s, itemOrPatch) == Res(S[s], "thrown", TypeError, <<>>)

\* The thunks called one after the other until one fails.
RECURSIVE Requests(_, _, _, _)
Requests(S, s, items, results) ==
    IF items = <<>> THEN Out(S, "resolved", NoError, results)
    ELSE LET r == Thunk(S, s, Head(items))
             S1 == [S EXCEPT ![s] = r.st]
         IN IF r.outcome = "resolved"
            THEN Requests(S1, s, Tail(items), results \o r.value)
            ELSE Out(S1, "rejected", r.error, <<>>)

\* batchUpdates(store, thunks), with the Promise.all and the then around it,
\* after section 4.4 of the specification: the requests run in their order,
\* the first failure fails the batch and is reported as a failed promise,
\* nothing is rolled back.  Every thunk fails when it is called, so a batch is
\* over within the call that started it and no two batches overlap.  The code
\* has no statement that ends a transaction; whether the module that is not
\* among the sources resets inTransaction when the batch is over is left
\* open: reset says which.
batchUpdates(S, s, items, reset) ==
    LET r == Requests(S, s, items, <<>>)
    IN Out(IF reset THEN [r.stores EXCEPT ![s].inTransaction = FALSE] ELSE r.stores,
           r.outcome, r.error, r.value)

\* put(...itemsOrPatches): with a source, the array of the arguments is the
\* one argument of the source's put.  areItems is false of an empty argument
\* list only: toString() of an item, of an array and of a Map is not 'Map'.
RECURSIVE put(_, _, _, _)
put(S, s, itemsOrPatches, reset) ==
    IF S[s].source # NoStore THEN put(S, S[s].source, <<itemsOrPatches>>, reset)
    ELSE LET S1 == BumpVersion(S, s)
         IN IF itemsOrPatches = <<>>
            THEN OutOf(S1, s, Advised(_put(S1[s], <<itemsOrPatches>>)))
            ELSE batchUpdates(transaction(S1, s), s, itemsOrPatches, reset)

\* RequestStore.fetch(): the reduce over the queries returns null unless one
\* of them is a Filter, and null.toString() throws; with a Filter the promise
\* of request.get is returned.
fetch(S, s) ==
    IF \A i \in DOMAIN S[s].queries : ~isFilter(S[s].queries[i])
    THEN Out(S, "thrown", TypeError, <<>>)
    ELSE Out(S, "pending", NoError, <<>>)

\* track(): with a source, this.source.on is not a function (no class defines
\* on) and the call throws before isLive is set.
track(S, s) ==
    IF S[s].source # NoStore THEN Out(S, "thrown", TypeError, <<>>)
    ELSE LET S1 == [S EXCEPT ![s].isLive = TRUE]
             r == fetch(S1, s)
         IN Out(r.stores, r.outcome, r.error, <<>>)

\* release(): without a source, Promise.resolve().  With one, sourceHandles is
\* undefined and the promise is that of fetch, with the callback of line 145.
release(S, s) ==
    IF S[s].source # NoStore
    THEN LET r == fetch(S, s) IN Out(r.stores, r.outcome, r.error, <<>>)
    ELSE Out(S, "resolved", NoError, Undefined)

\* propagateUpdate(eventOrEvents): the forEach over the events; the first
\* exception leaves it.
RECURSIVE ApplyEvents(_, _, _)
ApplyEvents(S, s, events) ==
    IF events = <<>> THEN Out(S, "returned", NoError, <<>>)
    ELSE LET event == Head(events)
             r == IF event.type = "add" THEN Advised(_add(S[s], <<event.item>>))
                  ELSE IF event.type = "update" THEN Advised(_put(S[s], <<event.item>>))
                  ELSE IF event.type = "delete" THEN Advised(_delete(S[s], <<event.id>>))
                  ELSE Res(S[s], "returned", NoError, <<>>)
             S1 == [S EXCEPT ![s] = r.st]
         IN IF r.outcome = "thrown" THEN Out(S1, "thrown", r.error, <<>>)
            ELSE ApplyEvents(S1, s, Tail(events))

propagateUpdate(S, s, eventOrEvents) ==
    LET events == IF eventOrEvents.type = "batch" THEN eventOrEvents.updates
                  ELSE <<eventOrEvents>>
        S1 == [BumpVersion(S, s) EXCEPT ![s].version = @ + Len(events)]
    IN ApplyEvents(S1, s, events)

(***************************************************************************)
(* The state machine.  stores[1] is the store the caller constructed; a    *)
(* store that filter, sort or range returns is appended to stores.  last   *)
(* is the last call: the receiver, the arguments and how it ended.         *)
(***************************************************************************)
StoreIds == 1 .. Len(stores)

\* The version increments made so far, over all stores.
RECURSIVE Work(_)
Work(S) == IF S = <<>> THEN 0 ELSE (Head(S).version - 1) + Work(Tail(S))

Call(op, s, args, r) ==
    [op |-> op, store |-> s, args |-> args, outcome |-> r.outcome,
     error |-> r.error, value |-> r.value]

\* The options new RequestStore is called with.
RootOptions ==
    {[queries |-> <<>>, source |-> NoStore, target |-> "/items", sendPatches |-> FALSE]}

\* new RequestStore(options)
Init ==
    \E options \in RootOptions :
        /\ stores = <<RequestStore(options)>>
        /\ last = [op |-> "new", store |-> 1, args |-> <<options>>,
                   outcome |-> "returned", error |-> NoError, value |-> <<1>>]

\* The call op(args) on s ended as c says.
Done(op, s, args, c) ==
    /\ stores' = c.stores
    /\ last' = Call(op, s, args, c)

SeedData ==
    {<<>>,
     <<[id |-> "a", v |-> 1], [id |-> "b", v |-> 2], [id |-> "c", v |-> 1]>>}

\* A map handed in as options.map: the inverse index of the data.
SeedMap(data) ==
    [id \in {data[i].id : i \in 1 .. Len(data)} |->
        LET i == CHOOSE j \in 1 .. Len(data) : data[j].id = id
        IN [item |-> data[i], index |-> i - 1]]

\* The options new MemoryStore is called with: {data} and {data, map}.
SeedOptions ==
    {[data |-> data, map |-> <<>>] : data \in SeedData}
    \cup {[data |-> data, map |-> SeedMap(data)] : data \in SeedData \ {<<>>}}

\* new MemoryStore(options): the constructor throws and no store is added.
NewMemoryStore(options) ==
    LET made == MemoryStore(options) IN
    /\ stores' = stores
    /\ last' = [op |-> "new MemoryStore", store |-> 0, args |-> <<options>>,
                outcome |-> IF made.threw THEN "thrown" ELSE "returned",
                error |-> made.error, value |-> <<>>]

\* The ids and the items the calls are made with.
CallIds == {"a"}
CallItems == {[id |-> id, v |-> MaxVal] : id \in CallIds}

CallGet(s, ids) == Done("get", s, ids, get(stores, s, ids))

CallGetId(s, item) == Done("getId", s, <<item>>, OutOf(stores, s, getId(stores[s], item)))

CallAdd(s, items) ==
    /\ Work(stores) < MaxWork
    /\ Done("add", s, items, add(stores, s, items))

CallPut(s, items, reset) ==
    /\ Work(stores) < MaxWork
    /\ Done("put", s, items, put(stores, s, items, reset))

CallDelete(s, ids) ==
    /\ Work(stores) < MaxWork
    /\ Done("delete", s, ids, delete(stores, s, ids))

CallFetch(s) == Done("fetch", s, <<>>, fetch(stores, s))

CallTrack(s) == Done("track", s, <<>>, track(stores, s))

CallRelease(s) == Done("release", s, <<>>, release(stores, s))

CallTransaction(s) ==
    Done("transaction", s, <<>>, Out(transaction(stores, s), "returned", NoError, <<>>))

CallFilter(s, q) ==
    /\ isFilter(q)
    /\ Done("filter", s, <<q>>, filter(stores, s, q))

CallSort(s, q) ==
    /\ q.queryType = "Sort"
    /\ Done("sort", s, <<q>>, sort(stores, s, q))

CallRange(s, q) ==
    /\ q.queryType = "Range"
    /\ Done("range", s, <<q>>, range(stores, s, q))

SingleEvents ==
    {Event("add", item, item.id) : item \in CallItems}
    \cup {Event("update", item, item.id) : item \in CallItems}
    \cup {Event("delete", NoItem, id) : id \in CallIds}

\* The members of the batches tried: one event of each type.
BatchMembers ==
    {Event("add", [id |-> "c", v |-> 1], "c"),
     Event("update", [id |-> "a", v |-> MaxVal], "a"),
     Event("delete", NoItem, "b")}

EventInputs ==
    SingleEvents \cup {Batch(updates) : updates \in ArgLists(BatchMembers, MaxEvents)}

\* getUpdateCallback()(event): the callback a store hands out, called with an
\* event.
CallUpdateCallback(s, event) ==
    /\ Work(stores) < MaxWork
    /\ Done("propagateUpdate", s, <<event>>, propagateUpdate(stores, s, event))

Next ==
    \/ \E options \in SeedOptions : NewMemoryStore(options)
    \/ \E s \in StoreIds, ids \in ArgLists(CallIds, MaxCallArgs) : CallGet(s, ids)
    \/ \E s \in StoreIds, item \in CallItems : CallGetId(s, item)
    \/ \E s \in StoreIds, items \in ArgLists(CallItems, MaxCallArgs) : CallAdd(s, items)
    \/ \E s \in StoreIds, items \in ArgLists(CallItems, MaxPutArgs), reset \in BOOLEAN :
           CallPut(s, items, reset)
    \/ \E s \in StoreIds, ids \in ArgLists(CallIds, MaxCallArgs) : CallDelete(s, ids)
    \/ \E s \in StoreIds : CallFetch(s)
    \/ \E s \in StoreIds : CallTrack(s)
    \/ \E s \in StoreIds : CallRelease(s)
    \/ \E s \in StoreIds : CallTransaction(s)
    \/ \E s \in StoreIds, q \in Queries : Len(stores) < MaxStores /\ CallFilter(s, q)
    \/ \E s \in StoreIds, q \in Queries : Len(stores) < MaxStores /\ CallSort(s, q)
    \/ \E s \in StoreIds, q \in Queries : Len(stores) < MaxStores /\ CallRange(s, q)
    \/ \E s \in StoreIds, event \in EventInputs : CallUpdateCallback(s, event)

Spec == Init /\ [][Next]_vars

\* filter, sort and range in chains, with fetch, track and release of the
\* stores they return.
NextViews ==
    \/ \E s \in StoreIds, q \in Queries : Len(stores) < MaxChain /\ CallFilter(s, q)
    \/ \E s \in StoreIds, q \in Queries : Len(stores) < MaxChain /\ CallSort(s, q)
    \/ \E s \in StoreIds, q \in Queries : Len(stores) < MaxChain /\ CallRange(s, q)
    \/ \E s \in StoreIds : CallFetch(s)
    \/ \E s \in StoreIds : CallTrack(s)
    \/ \E s \in StoreIds : CallRelease(s)

SpecViews == Init /\ [][NextViews]_vars

\* Sort.apply and the comparator on their own, with sort and fetch of a store.
SortInputs == ArgLists(Items, MaxSortLen)

ApplySort(query, data) ==
    /\ last' = [op |-> "Sort.apply", store |-> 0, args |-> <<query, data>>,
                outcome |-> "returned", error |-> NoError,
                value |-> SortApply(query, data)]
    /\ UNCHANGED stores

\* The items compared: the value at the path is a number, null or undefined.
SortItems == [id : Ids, v : Vals \cup {Null, Missing}]

Compare(query, a, b) ==
    /\ last' = [op |-> "comparator", store |-> 0, args |-> <<query, a, b>>,
                outcome |-> "returned", error |-> NoError,
                value |-> <<comparator(query, a, b)>>]
    /\ UNCHANGED stores

NextSort ==
    \/ \E descending \in BOOLEAN, data \in SortInputs :
           ApplySort(SortQuery(descending), data)
    \/ \E descending \in BOOLEAN, a \in SortItems, b \in SortItems :
           Compare(SortQuery(descending), a, b)
    \/ \E s \in StoreIds, q \in Queries : Len(stores) < MaxStores /\ CallSort(s, q)
    \/ \E s \in StoreIds : CallFetch(s)

SpecSort == Init /\ [][NextSort]_vars

(***************************************************************************)
(* Properties.                                                             *)
(***************************************************************************)
Mutations == {"add", "put", "delete"}
DeriveOps == {"filter", "sort", "range"}

\* The error the specification names for an id that is absent.
NotFound == "NotFound"

\* The store was returned by filter, sort or range: a derived view.
Derived(st) == st.options.source # NoStore

\* The root a derived view was derived from, through every filter, sort and
\* range call of its chain.
RECURSIVE UltimateSource(_, _)
UltimateSource(S, v) ==
    IF Derived(S[v]) THEN UltimateSource(S, S[v].options.source) ELSE v

\* The queries of the calls that built a view, in the order of the calls.
RECURSIVE AskedQueries(_, _)
AskedQueries(S, v) ==
    IF Derived(S[v])
    THEN Append(AskedQueries(S, S[v].options.source),
                S[v].options.queries[Len(S[v].options.queries)])
    ELSE <<>>

\* The number of events in an argument of the update callback.
EventCount(eventOrEvents) ==
    IF eventOrEvents.type = "batch" THEN Len(eventOrEvents.updates) ELSE 1

\* C5: a get or a delete on a root store that names an id the store's map
\* does not have ends in a rejected promise whose error is NotFound.
C5_AbsentIdNotFound ==
    [][(/\ last'.op \in {"get", "delete"}
        /\ stores[last'.store].source = NoStore
        /\ \E i \in 1 .. Len(last'.args) :
               \/ stores[last'.store].map = Undefined
               \/ last'.args[i] \notin DOMAIN stores[last'.store].map) =>
           (last'.outcome = "rejected" /\ last'.error = NotFound)]_vars

C5_Witness ==
    /\ last.op = "get"
    /\ last.args = <<"a">>
    /\ ~Derived(stores[last.store])
    /\ last.outcome = "resolved"
    /\ last.value = Null

\* C6: no step lowers the version of any store.
C6_VersionMonotonic ==
    [][\A s \in StoreIds : stores'[s].version >= stores[s].version]_vars

C6_Witness ==
    /\ last.op = "propagateUpdate"
    /\ last.args[1].type = "batch"
    /\ Derived(stores[last.store])
    /\ stores[last.store].isLive
    /\ stores[last.store].version >= 3
    /\ stores[UltimateSource(stores, last.store)].version >= 2

\* C8: fetch() on a derived view that does not track resolves with the
\* queries of the calls that built the view, applied in their order to the
\* current data of the root.
C8_ViewFetchAppliesQueries ==
    [][(/\ last'.op = "fetch"
        /\ Derived(stores[last'.store])
        /\ ~stores[last'.store].isLive) =>
           /\ last'.outcome = "resolved"
           /\ last'.value = ApplyAll(AskedQueries(stores, last'.store),
                                     stores[UltimateSource(stores, last'.store)].data)]_vars

C8_Witness ==
    /\ last.op = "fetch"
    /\ Derived(stores[last.store])
    /\ ~stores[last.store].isLive
    /\ Len(AskedQueries(stores, last.store)) = 2
    /\ last.outcome = "thrown"

\* C9: filter, sort and range return a new store whose source is the receiver,
\* or the receiver's source when it has one, and whose queries are the
\* receiver's with the new query appended; the receiver is left as it was.
C9_DerivedStoreKeepsOptions ==
    [][(last'.op \in DeriveOps) =>
           LET r == last'.store
               q == last'.args[1]
           IN /\ last'.outcome = "returned"
              /\ stores'[last'.value[1]].source =
                     (IF stores[r].source # NoStore THEN stores[r].source ELSE r)
              /\ stores'[last'.value[1]].queries = Append(stores[r].queries, q)
              /\ stores'[r] = stores[r]]_vars

C9_Witness ==
    /\ last.op \in DeriveOps
    /\ last.outcome = "returned"
    /\ stores[last.value[1]].source = NoStore
    /\ stores[last.value[1]].queries = <<>>
    /\ stores[last.value[1]].options.source = last.store

\* C10: an add, put or delete on a derived view leaves the root as the same
\* call with the same arguments on the root leaves it, and does not write the
\* view's data or map.
C10_ViewForwardsMutations ==
    [][(last'.op \in Mutations /\ Derived(stores[last'.store])) =>
           LET v == last'.store
               root == UltimateSource(stores, v)
               args == last'.args
           IN /\ \/ last'.op = "add" /\ stores'[root] = add(stores, root, args).stores[root]
                 \/ last'.op = "delete"
                        /\ stores'[root] = delete(stores, root, args).stores[root]
                 \/ last'.op = "put"
                        /\ \E reset \in BOOLEAN :
                               stores'[root] = put(stores, root, args, reset).stores[root]
              /\ stores'[v].data = stores[v].data
              /\ stores'[v].map = stores[v].map]_vars

C10_Witness ==
    /\ last.op = "add"
    /\ last.args # <<>>
    /\ Derived(stores[last.store])
    /\ stores[last.store].version = 2
    /\ stores[UltimateSource(stores, last.store)].version = 1

C12_PropagationBumpsVersionByN ==
    [][(/\ last'.op = "propagateUpdate"
        /\ Derived(stores[last'.store])
        /\ stores[last'.store].isLive) =>
           stores'[last'.store].version =
               stores[last'.store].version + EventCount(last'.args[1])]_vars

C12_Witness ==
    /\ last.op = "propagateUpdate"
    /\ Derived(stores[last.store])
    /\ stores[last.store].isLive
    /\ EventCount(last.args[1]) = 2
    /\ stores[last.store].version = 4

\* C13: fetch() on a derived view whose version equals its root's resolves
\* with the view's cached data, and a fetch() that follows a fetch() on the
\* same view resolves with an equal sequence.
C13_CacheHitIdempotent ==
    [][(/\ last'.op = "fetch"
        /\ Derived(stores[last'.store])
        /\ stores[last'.store].version =
               stores[UltimateSource(stores, last'.store)].version) =>
           /\ last'.outcome = "resolved"
           /\ last'.value = stores[last'.store].data
           /\ (last.op = "fetch" /\ last.store = last'.store) =>
                  last'.value = last.value]_vars

C13_Witness ==
    /\ last.op = "fetch"
    /\ Derived(stores[last.store])
    /\ stores[last.store].version = stores[UltimateSource(stores, last.store)].version
    /\ stores[last.store].version > 1
    /\ last.outcome = "thrown"

\* C14: when release() on a derived view has resolved, the view has no source
\* and is not live, and a fetch() on it right after resolves with the data
\* release() resolved with.
C14_ReleaseDetaches ==
    [][/\ (/\ last'.op = "release"
           /\ Derived(stores[last'.store])
           /\ last'.outcome = "resolved") =>
              /\ stores'[last'.store].source = NoStore
              /\ ~stores'[last'.store].isLive
       /\ (/\ last.op = "release"
           /\ last.outcome = "resolved"
           /\ Derived(stores[last.store])
           /\ last'.op = "fetch"
           /\ last'.store = last.store) =>
              /\ last'.outcome = "resolved"
              /\ last'.value = last.value]_vars

C14_Witness ==
    /\ last.op = "release"
    /\ Derived(stores[last.store])
    /\ last.outcome = "resolved"
    /\ stores[last.store].isLive


\* C20: fetch() leaves every store as it was, and Sort.apply leaves the
\* sequence it was given in the order it had.
C20_FetchAndSortArePure ==
    [][/\ (last'.op = "fetch") => stores' = stores
       /\ (last'.op = "Sort.apply") =>
              last'.value.given = last'.args[2]]_vars

\* C21: the comparator of a Sort on a path gives 0 for two null or undefined
\* values, -1 when only the first is null or undefined, 1 when only the second
\* is, and else -1, 1 or 0 as the first is less, greater or neither; so a null
\* value sorts before a defined one; descending, it gives the negation of the
\* ascending result.
C21_ComparatorNullsFirst ==
    (last.op = "comparator") =>
        LET query == last.args[1]
            a == last.args[2]
            b == last.args[3]
            x == a.v
            y == b.v
            absent(z) == z = Null \/ z = Missing
            ascending == comparator(SortQuery(FALSE), a, b)
        IN /\ ascending = (IF absent(x) /\ absent(y) THEN 0
                           ELSE IF absent(x) THEN -1
                           ELSE IF absent(y) THEN 1
                           ELSE IF x < y THEN -1
                           ELSE IF x > y THEN 1
                           ELSE 0)
           /\ last.value = <<IF query.descending THEN 0 - ascending ELSE ascending>>
           /\ (absent(x) /\ ~absent(y)) =>
                  SortApply(SortQuery(FALSE), <<b, a>>).returned = <<a, b>>

C21_Witness ==
    /\ last.op = "comparator"
    /\ last.args[1].descending
    /\ last.args[2].v = Missing
    /\ last.args[3].v \in Vals
    /\ last.value = <<1>>

====
